---- MODULE Spec2Model ----
(***************************************************************************)
(* Graph synchronization layer of the masterplanning front end.            *)
(*                                                                         *)
(* The controller part follows src/unnamed/part_001, the variant of app.js *)
(* with all three pollers (massing, enriched, masterplan); src/ui/app.js   *)
(* has the same handlers without the enriched view.  JavaScript is single  *)
(* threaded: one action is one run-to-completion segment of a handler or   *)
(* callback, from one await to the next.  `await fetch()` followed by      *)
(* `await r.json()` is one suspension: nothing is written between the two. *)
(* In the controller a call of fetchJsonWithRetry is one suspension too:   *)
(* between its attempts it writes only its own locals (i, lastErr), so the *)
(* controller sees it settle once, returned or thrown.  Its attempts are   *)
(* the subject of the fetch machine further down.                          *)
(***************************************************************************)
EXTENDS Naturals, Integers, Sequences, FiniteSets, Bags, TLC

\* ---------------------------------------------------------------- bounds
MaxTasks == 2      \* async handlers / timer callbacks in flight together
MaxTimers == 2     \* interval timers live together
MaxRev == 2        \* distinct non-zero mtime values the backend reports
MaxNodes == 2      \* node count of an enriched payload
MaxAttempts == 3   \* largest `attempts` a direct call is given
MaxEdges == 2      \* length of a raw edge list
MaxIndex == 17     \* largest number of iteration files the backend holds
MaxMtime == 6      \* largest mtime the file takes
MaxOutages == 2    \* most outages of the backend in one run
SmallCutoff == 4   \* the cutoff 1 << 20 scaled down
MaxPolls == 4      \* most status requests in flight together
MaxSent == 9       \* most status requests of one job
MaxTimeouts == 6   \* most close timers one dropdown sets

\* ------------------------------------------------------- program constants
CtxAppAttempts == 3   \* app.js: fetchJsonWithRetry(CONTEXT_GRAPH_PATH, 3, 700)
CtxAppDelay == 700
MassingAttempts == 3  \* fetchJsonWithRetry(MASSING_GRAPH_PATH, 3, 700, ...)
MassingDelay == 700
ProbeCutoff == 1048576  \* part_000: if (n > 1 << 20) break

\* ------------------------------------------------------------------ views
PollViews == {"massing", "enriched", "masterplan"}
MtimeViews == {"massing", "masterplan"}
Tabs == {"context", "brief", "massing", "enriched", "masterplan", "other"}

VARIABLES
  activeTab,   \* data-tab of the button carrying class "active"
  booted,      \* the DOMContentLoaded handler has run
  unloaded,    \* the beforeunload handler has run
  poll,        \* _massingPoll, _enrichedPoll, _mpPoll: 0 is null, else a handle
  timers,      \* live intervals: set of <<handle, view>>
  last,        \* _massingLastMtime, _mpLastMtime (0 unset), _enrichedLastTag
  tasks,       \* bag of suspended async functions: [k, v, pc]
  briefGraph,  \* window._briefGraph is set
  vis,         \* what the visualization shows: "none", "cleared" or a view
  ev,          \* the render collaborator's call made by the latest step
  \* one call of fetchJsonWithRetry, or of a loader around it
  fCaller,     \* who runs: "call" or a loader of Callers ("idle": nobody)
  fAttempts,   \* attempts
  fDelay,      \* delayMs
  fAllowEmpty, \* allowEmpty
  fi,          \* i
  fLastErr,    \* lastErr
  fpc,         \* "fetch", "backoff", "returned", "threw", "done"
  fReqs,       \* the answers to the GETs issued so far, in order
  fDelays,     \* the backoff delays waited so far, in order
  fRes,        \* what the call returned or threw
  fCall,       \* the loader's call of the render collaborator
  \* the enriched detector against a backend whose latest iteration changes
  srv,         \* the payload the latest endpoint answers with now
  seen,        \* the payload the stored tag was computed from
  tagLast,     \* _enrichedLastTag
  \* one run of part_000's findLatestEnrichedCandidate
  pN,          \* the backend holds it1.json .. it<pN>.json
  pN0,         \* pN when the run started
  pCut,        \* the safety cutoff in force (1 << 20 in the code)
  pn,          \* n
  pLastOk,     \* lastOk
  pLo,         \* lo
  pHi,         \* hi
  pBest,       \* best
  ppc,         \* "phase1", "reprobe", "phase2", "returned", "threw"
  pProbes,     \* the probes made so far: <<index, answer>>, in order
  pRes,        \* what the run returned or threw
  \* adaptGraph applied to a raw payload, and to its own output
  aRaw,        \* raw
  aOnce,       \* adaptGraph(raw)
  aTwice,      \* adaptGraph(adaptGraph(raw))
  apc,         \* "raw", "once", "twice"
  \* the graphs that reach the renderer
  rTab,        \* the active tab: "brief" or "massing"
  rBrief,      \* window._briefGraph (NoGraph: not set)
  rHanded,     \* the graph last handed to showGraph3DBackground
  rCall,        \* the render collaborator's call made by the latest step
  \* one activation of an mtime view against a backend whose file changes
  qRev,        \* the file's mtime now (the revision the backend serves)
  qUp,         \* the backend answers (FALSE: every request fails)
  qOutages,    \* the outages so far
  qShown,      \* the revision of the rendered graph, 0 when none or cleared
  qLast,       \* _massingLastMtime
  qpc,         \* the tab handler: "load", "seed", "polling"
  qTick,        \* the interval callback: "idle", "mtime", "load"
  \* the status poller of one OSM job (saveContextBtn handler)
  oPc,         \* "idle", "starting", "polling", "stopped", "nojob"
  oSent,       \* the status requests issued so far
  oInFlight,   \* the status requests not answered yet
  oStatus,      \* the status text
  \* one sticky dropdown (setupStickyDropdown)
  dShown,      \* dropdown.style.display === "block"
  dHandle,     \* hideTimeout (0: undefined)
  dPending,    \* the close timers set and neither fired nor cleared
  dNext,       \* the handle the next setTimeout returns
  dOpened      \* open() ran, and no leave, toggle, outside click or Escape since

ctlVars == <<activeTab, booted, unloaded, poll, timers, last, tasks,
             briefGraph, vis, ev>>
fetchVars == <<fCaller, fAttempts, fDelay, fAllowEmpty, fi, fLastErr, fpc,
               fReqs, fDelays, fRes, fCall>>
tagVars == <<srv, seen, tagLast>>
probeVars == <<pN, pN0, pCut, pn, pLastOk, pLo, pHi, pBest, ppc, pProbes, pRes>>
adaptVars == <<aRaw, aOnce, aTwice, apc>>
renderVars == <<rTab, rBrief, rHanded, rCall>>
freshVars == <<qRev, qUp, qOutages, qShown, qLast, qpc, qTick>>
osmVars == <<oPc, oSent, oInFlight, oStatus>>
dropVars == <<dShown, dHandle, dPending, dNext, dOpened>>
vars == <<ctlVars, fetchVars, tagVars, probeVars, adaptVars, renderVars, freshVars, osmVars, dropVars>>

\* ------------------------------------------------------- enriched payloads
NullTag == <<>>

\* What GET /graph/knowledge/iteration/latest can answer with a non-empty
\* graph: node count, link count, meta.iteration_file, and the rest of the
\* content (attributes of nodes and links), which no count shows.
EnrichedPayloads ==
  [nn : 1..MaxNodes, nl : 0..1, file : {"", "it1.json", "it2.json"},
   body : {"a", "b"}]

\* The answers the controller is run against: the counts vary, the rest not.
LatestAnswers ==
  {j \in EnrichedPayloads : j.nl = 0 /\ j.file = "it1.json" /\ j.body = "a"}

\* `api:${nodes.length}:${links.length}:${j?.meta?.iteration_file ?? ""}`
Tag(j) == <<"api", j.nn, j.nl, j.file>>

\* ------------------------------------------------------- fetchJsonWithRetry
\* One answer to a GET.  status 0 stands for a rejected fetch (network
\* error); a 2xx carries a body: a graph with nodes ("g1", "g2"), a graph
\* whose node and link lists are both empty, or text that is not JSON.
Bodies == {"g1", "g2", "empty", "bad"}
Responses ==
  {[status |-> 200, body |-> b] : b \in Bodies}
    \cup {[status |-> st, body |-> "none"] : st \in {0, 404, 500}}

NoError == <<"none">>

\* The empty-graph test without its allowEmpty guard.
AttemptErrorEmptyAlways(r, allowEmpty) ==
  IF r.status = 0 THEN <<"TypeError">>
  ELSE IF r.status # 200 THEN <<"HTTP", r.status>>
  ELSE IF r.body = "bad" THEN <<"SyntaxError">>
  ELSE IF r.body = "empty" THEN <<"Empty graph payload">>
  ELSE NoError

\* What one attempt of the loop body throws, NoError when it returns j:
\*   fetch rejects; if (!r.ok) throw new Error(`HTTP ${r.status}`);
\*   r.json() throws; if (!allowEmpty && nodes and links are empty)
\*   throw new Error("Empty graph payload").
AttemptError(r, allowEmpty) ==
  IF r.status = 0 THEN <<"TypeError">>
  ELSE IF r.status # 200 THEN <<"HTTP", r.status>>
  ELSE IF r.body = "bad" THEN <<"SyntaxError">>
  ELSE IF ~allowEmpty /\ r.body = "empty" THEN <<"Empty graph payload">>
  ELSE NoError

\* if (i < attempts - 1) await backoff; the loop then runs attempt i + 1.
MoreAttempts(i, attempts) == i < attempts - 1

\* The backoff that does not grow.
BackoffDelayFlat(delayMs, i) == delayMs

\* delayMs * (1 + i)
BackoffDelay(delayMs, i) == delayMs * (1 + i)

\* ------------------------------------------------------- timers and handles
FreeHandles == (1..MaxTimers) \ {t[1] : t \in timers}

\* A stop that cancels the timer and keeps the stale handle.
stopPollingKeepsHandle(c, v) ==
  IF c.poll[v] # 0
  THEN [poll |-> c.poll,
        timers |-> {t \in c.timers : t[1] # c.poll[v]}]
  ELSE c

\* stopXPolling on the pair c = [poll, timers]:
\* if (_xPoll) { clearInterval(_xPoll); _xPoll = null; }
stopPolling(c, v) ==
  IF c.poll[v] # 0
  THEN [poll |-> [c.poll EXCEPT ![v] = 0],
        timers |-> {t \in c.timers : t[1] # c.poll[v]}]
  ELSE c

RECURSIVE stopEach(_, _)
stopEach(c, vs) ==
  IF vs = {} THEN c
  ELSE LET v == CHOOSE x \in vs : TRUE
       IN stopEach(stopPolling(c, v), vs \ {v})

\* _xPoll = setInterval(callback, ms): a fresh handle, stored over the old one.
setInterval(c, v) ==
  LET h == CHOOSE x \in (1..MaxTimers) \ {t[1] : t \in c.timers} :
             \A y \in (1..MaxTimers) \ {t[1] : t \in c.timers} : x <= y
  IN [poll |-> [c.poll EXCEPT ![v] = h], timers |-> c.timers \cup {<<h, v>>}]

Cur == [poll |-> poll, timers |-> timers]

NoCall == <<"none">>
Render(v) == <<"render", v>>
Clear == <<"clear">>

Task(k, v, pc) == [k |-> k, v |-> v, pc |-> pc]
AddTask(b, t) == b (+) SetToBag({t})
DelTask(b, t) == b (-) SetToBag({t})
NTasks == BagCardinality(tasks)

\* The pollers each tab's handler stops before it loads or starts its own.
StoppedBy(tab) ==
  CASE tab = "massing" -> {"enriched", "masterplan"}
    [] tab = "enriched" -> {"massing", "masterplan"}
    [] tab = "masterplan" -> {"massing", "enriched"}
    [] OTHER -> PollViews

\* ------------------------------------------------------------------- Init
InitCtl ==
  /\ activeTab \in Tabs
  /\ booted = FALSE
  /\ unloaded = FALSE
  /\ poll = [v \in PollViews |-> 0]
  /\ timers = {}
  /\ last = [v \in PollViews |-> IF v = "enriched" THEN NullTag ELSE 0]
  /\ tasks = EmptyBag
  /\ briefGraph = FALSE
  /\ vis = "none"
  /\ ev = NoCall

\* ------------------------------------------------------- the tab handlers
AwaitsBackendBriefToo == {"context", "brief", "massing", "enriched", "masterplan"}

\* The tabs whose handler awaits a loader (a backend request).
AwaitsBackend == {"context", "massing", "enriched", "masterplan"}

\* The synchronous part of a tab's handler, up to its first await (or its
\* end): stop the other pollers, then load this view or start its poller.
\* startEnrichedPolling() runs stopEnrichedPolling() before its first await.
Handler(tab) ==
  LET c == stopEach(Cur, StoppedBy(tab))
      d == IF tab = "enriched" THEN stopPolling(c, "enriched") ELSE c
  IN /\ poll' = d.poll
     /\ timers' = d.timers
     /\ IF tab \in AwaitsBackend
        THEN /\ NTasks < MaxTasks
             /\ tasks' = AddTask(tasks, Task("handler", tab, "load"))
             /\ ev' = NoCall
             /\ vis' = vis
        ELSE /\ tasks' = tasks
             /\ IF tab = "brief" /\ briefGraph
                THEN ev' = Render("brief") /\ vis' = "brief"
                ELSE ev' = Clear /\ vis' = "cleared"
     /\ UNCHANGED <<last, briefGraph, unloaded>>
     /\ UNCHANGED <<fetchVars, tagVars, probeVars, adaptVars, renderVars, freshVars, osmVars, dropVars>>

\* document.addEventListener("DOMContentLoaded", ...)
Boot ==
  /\ ~booted
  /\ booted' = TRUE
  /\ activeTab' = activeTab
  /\ Handler(activeTab)

\* btn.addEventListener("click", ...): move class "active", then the handler.
Click(tab) ==
  /\ booted /\ ~unloaded
  /\ activeTab' = tab
  /\ booted' = booted
  /\ Handler(tab)

\* window.addEventListener("beforeunload", ...)
Unload ==
  /\ booted /\ ~unloaded
  /\ unloaded' = TRUE
  /\ LET c == stopEach(Cur, PollViews)
     IN poll' = c.poll /\ timers' = c.timers
  /\ ev' = NoCall
  /\ UNCHANGED <<activeTab, booted, last, tasks, briefGraph, vis>>
  /\ UNCHANGED <<fetchVars, tagVars, probeVars, adaptVars, renderVars, freshVars, osmVars, dropVars>>

\* An upload that renders its graph whatever tab is active.
UploadRespAnyTab(hasNodes) ==
  /\ booted /\ ~unloaded
  /\ IF hasNodes
     THEN briefGraph' = TRUE /\ ev' = Render("brief") /\ vis' = "brief"
     ELSE briefGraph' = briefGraph /\ ev' = NoCall /\ vis' = vis
  /\ UNCHANGED <<activeTab, booted, unloaded, poll, timers, last, tasks>>
  /\ UNCHANGED <<fetchVars, tagVars, probeVars, adaptVars, renderVars, freshVars, osmVars, dropVars>>

\* handleUpload of chat.js, from the response on: a graph with nodes is
\* stored, and rendered when the brief tab is the active one.
UploadResp(hasNodes) ==
  /\ booted /\ ~unloaded
  /\ IF hasNodes
     THEN /\ briefGraph' = TRUE
          /\ IF activeTab = "brief"
             THEN ev' = Render("brief") /\ vis' = "brief"
             ELSE ev' = NoCall /\ vis' = vis
     ELSE /\ briefGraph' = briefGraph
          /\ ev' = NoCall /\ vis' = vis
  /\ UNCHANGED <<activeTab, booted, unloaded, poll, timers, last, tasks>>
  /\ UNCHANGED <<fetchVars, tagVars, probeVars, adaptVars, renderVars, freshVars, osmVars, dropVars>>

\* ------------------------------------------------------------ the loaders
\* A loader whose catch block only logs.
LoaderOutcomeSilent(ok, v) == IF ok THEN Render(v) ELSE NoCall

\* try { ... showGraph3DBackground(adapted) } catch (e) { ... clearGraph() }
LoaderOutcome(ok, v) == IF ok THEN Render(v) ELSE Clear

\* loadContextGraphOnce: one GET; 404 clears and returns, any other failure
\* (fetch rejects, !r.ok, r.json() throws) is caught and clears, a parsed
\* body, empty or not, is adapted and rendered.
ContextResp(t, r) ==
  /\ t \in BagToSet(tasks) /\ t.v = "context" /\ t.pc = "load"
  /\ tasks' = DelTask(tasks, t)
  /\ LET ok == ~(r.status = 404 \/ AttemptError(r, TRUE) # NoError)
     IN /\ ev' = LoaderOutcome(ok, "context")
        /\ vis' = IF ok THEN "context" ELSE "cleared"
  /\ UNCHANGED <<activeTab, booted, unloaded, poll, timers, last, briefGraph>>
  /\ UNCHANGED <<fetchVars, tagVars, probeVars, adaptVars, renderVars, freshVars, osmVars, dropVars>>

\* A timer callback that stops its poller once its reload has settled.
AfterLoadTickStops(t) ==
  LET c == stopPolling(Cur, t.v)
  IN /\ poll' = c.poll /\ timers' = c.timers
     /\ tasks' = IF t.k = "handler"
                 THEN AddTask(DelTask(tasks, t), Task("handler", t.v, "seed"))
                 ELSE DelTask(tasks, t)

\* What follows `await loadXGraphOnce()` for an mtime view: in a tab handler
\* startXPolling() runs to its seed query; in a timer callback nothing.
AfterLoad(t) ==
  IF t.k = "handler"
  THEN LET c == stopPolling(Cur, t.v)
       IN /\ poll' = c.poll /\ timers' = c.timers
          /\ tasks' = AddTask(DelTask(tasks, t), Task("handler", t.v, "seed"))
  ELSE /\ tasks' = DelTask(tasks, t)
       /\ UNCHANGED <<poll, timers>>

\* loadMassingGraphOnce / loadMasterplanGraphOnce once fetchJsonWithRetry has
\* settled: a payload is adapted and rendered, a throw is caught and clears.
LoadResp(t, ok) ==
  /\ t \in BagToSet(tasks) /\ t.v \in MtimeViews /\ t.pc = "load"
  /\ ev' = LoaderOutcome(ok, t.v)
  /\ vis' = IF ok THEN t.v ELSE "cleared"
  /\ AfterLoad(t)
  /\ UNCHANGED <<activeTab, booted, unloaded, last, briefGraph>>
  /\ UNCHANGED <<fetchVars, tagVars, probeVars, adaptVars, renderVars, freshVars, osmVars, dropVars>>

\* -------------------------------------------------------- mtime detectors
\* What a GET of /graph/<view>/mtime can answer: a failure (network, bad
\* JSON), or a body whose mtime is missing or zero (0) or the file's mtime.
MtimeAnswers ==
  {[ok |-> FALSE, mtime |-> 0]} \cup {[ok |-> TRUE, mtime |-> m] : m \in 0..MaxRev}

\* The comparison with the stored value left out.
ChangedAnyMtime(mtime, lastv) == mtime # 0

\* The test of a present mtime left out.
ChangedIgnoresZero(mtime, lastv) == mtime # lastv

\* if (mtime && mtime !== _xLastMtime)
Changed(mtime, lastv) == mtime # 0 /\ mtime # lastv

\* startMassingPolling / startMasterplanPolling after the seed query:
\* _xLastMtime = j0?.mtime || 0 (kept when the query threw), then
\* _xPoll = setInterval(...).
SeedResp(t, r) ==
  /\ t \in BagToSet(tasks) /\ t.pc = "seed"
  /\ FreeHandles # {}
  /\ last' = IF r.ok THEN [last EXCEPT ![t.v] = r.mtime] ELSE last
  /\ LET c == setInterval(Cur, t.v)
     IN poll' = c.poll /\ timers' = c.timers
  /\ tasks' = DelTask(tasks, t)
  /\ ev' = NoCall
  /\ UNCHANGED <<activeTab, booted, unloaded, briefGraph, vis>>
  /\ UNCHANGED <<fetchVars, tagVars, probeVars, adaptVars, renderVars, freshVars, osmVars, dropVars>>

\* A live interval fires: the callback runs to its first await, the mtime
\* query of an mtime view or the fetch of findLatestEnrichedCandidate.
TickFire(tm) ==
  /\ tm \in timers
  /\ NTasks < MaxTasks
  /\ tasks' = AddTask(tasks, Task("tick", tm[2],
                        IF tm[2] = "enriched" THEN "load" ELSE "mtime"))
  /\ ev' = NoCall
  /\ UNCHANGED <<activeTab, booted, unloaded, poll, timers, last, briefGraph, vis>>
  /\ UNCHANGED <<fetchVars, tagVars, probeVars, adaptVars, renderVars, freshVars, osmVars, dropVars>>

\* The interval callback of an mtime view after its query: on a changed
\* mtime store it and await loadXGraphOnce(); else, or on a throw, return.
MtimeResp(t, r) ==
  /\ t \in BagToSet(tasks) /\ t.pc = "mtime"
  /\ IF r.ok /\ Changed(r.mtime, last[t.v])
     THEN /\ last' = [last EXCEPT ![t.v] = r.mtime]
          /\ tasks' = AddTask(DelTask(tasks, t), Task("tick", t.v, "load"))
     ELSE /\ last' = last
          /\ tasks' = DelTask(tasks, t)
  /\ ev' = NoCall
  /\ UNCHANGED <<activeTab, booted, unloaded, poll, timers, briefGraph, vis>>
  /\ UNCHANGED <<fetchVars, tagVars, probeVars, adaptVars, renderVars, freshVars, osmVars, dropVars>>

\* ------------------------------------------------------ enriched detector
\* if (cand.tag !== _enrichedLastTag)
TagChanged(tag, lastTag) == tag # lastTag

\* startEnrichedPolling after stopEnrichedPolling(), once the fetch of
\* loadEnrichedGraphOnce has settled: a payload is rendered and its tag
\* stored, a throw is caught and clears; both then set the interval.
EnrichedStartResp(t, ok, j) ==
  /\ t \in BagToSet(tasks) /\ t.v = "enriched" /\ t.k = "handler" /\ t.pc = "load"
  /\ FreeHandles # {}
  /\ ev' = LoaderOutcome(ok, "enriched")
  /\ IF ok
     THEN /\ vis' = "enriched"
          /\ last' = [last EXCEPT !["enriched"] = Tag(j)]
     ELSE /\ vis' = "cleared"
          /\ last' = last
  /\ LET c == setInterval(Cur, "enriched")
     IN poll' = c.poll /\ timers' = c.timers
  /\ tasks' = DelTask(tasks, t)
  /\ UNCHANGED <<activeTab, booted, unloaded, briefGraph>>
  /\ UNCHANGED <<fetchVars, tagVars, probeVars, adaptVars, renderVars, freshVars, osmVars, dropVars>>

\* The enriched interval callback once findLatestEnrichedCandidate has
\* settled: a new tag renders and is stored; a throw is swallowed.
EnrichedTickResp(t, ok, j) ==
  /\ t \in BagToSet(tasks) /\ t.v = "enriched" /\ t.k = "tick" /\ t.pc = "load"
  /\ IF ok /\ TagChanged(Tag(j), last["enriched"])
     THEN /\ ev' = Render("enriched") /\ vis' = "enriched"
          /\ last' = [last EXCEPT !["enriched"] = Tag(j)]
     ELSE /\ ev' = NoCall /\ vis' = vis /\ last' = last
  /\ tasks' = DelTask(tasks, t)
  /\ UNCHANGED <<activeTab, booted, unloaded, poll, timers, briefGraph>>
  /\ UNCHANGED <<fetchVars, tagVars, probeVars, adaptVars, renderVars, freshVars, osmVars, dropVars>>

\* ------------------------------------------------------------------- Next
NextCtl ==
  \/ Boot
  \/ \E tab \in Tabs : Click(tab)
  \/ Unload
  \/ \E t \in BagToSet(tasks), r \in Responses : ContextResp(t, r)
  \/ \E t \in BagToSet(tasks), ok \in BOOLEAN : LoadResp(t, ok)
  \/ \E t \in BagToSet(tasks), r \in MtimeAnswers : SeedResp(t, r)
  \/ \E tm \in timers : TickFire(tm)
  \/ \E t \in BagToSet(tasks), r \in MtimeAnswers : MtimeResp(t, r)
  \/ \E t \in BagToSet(tasks), ok \in BOOLEAN, j \in LatestAnswers :
        EnrichedStartResp(t, ok, j)
  \/ \E t \in BagToSet(tasks), ok \in BOOLEAN, j \in LatestAnswers :
        EnrichedTickResp(t, ok, j)

\* ------------------------------------------- fetchJsonWithRetry, stepwise
Callers == {"call", "ctxApp", "ctx001", "massing001", "massingApp"}
BaseDelays == {0, 700}

\* The loaders that go through fetchJsonWithRetry, and the view each renders:
\* app.js's loadContextGraphOnce, and loadMassingGraphOnce of part_001
\* ({ allowEmpty: true }) and of app.js (whose fetchJsonWithRetry has no
\* allowEmpty and always rejects an empty graph).
RetryLoaders == {"ctxApp", "massing001", "massingApp"}
LoaderView(c) == IF c = "ctxApp" THEN "context" ELSE "massing"
LoaderAttempts(c) == IF c = "ctxApp" THEN CtxAppAttempts ELSE MassingAttempts
LoaderDelay(c) == IF c = "ctxApp" THEN CtxAppDelay ELSE MassingDelay
LoaderAllowEmpty(c) == c = "massing001"

IdleFetch ==
  /\ fCaller = "idle" /\ fAttempts = 0 /\ fDelay = 0 /\ fAllowEmpty = FALSE
  /\ fi = 0 /\ fLastErr = NoError /\ fpc = "idle" /\ fReqs = <<>>
  /\ fDelays = <<>> /\ fRes = NoError /\ fCall = NoCall

\* The state right after the call: the first GET is issued.  A direct call
\* takes any arguments; app.js's context loader passes (3, 700) and has no
\* allowEmpty; part_001's context loader fetches without fetchJsonWithRetry.
InitLoad ==
  /\ fCaller \in Callers
  /\ fAttempts \in (IF fCaller = "call" THEN 1..MaxAttempts
                    ELSE IF fCaller \in RetryLoaders
                    THEN {LoaderAttempts(fCaller)} ELSE {1})
  /\ fDelay \in (IF fCaller = "call" THEN BaseDelays
                 ELSE IF fCaller \in RetryLoaders
                 THEN {LoaderDelay(fCaller)} ELSE {0})
  /\ fAllowEmpty \in (IF fCaller = "call" THEN BOOLEAN
                      ELSE {LoaderAllowEmpty(fCaller)})
  /\ fi = 0 /\ fLastErr = NoError /\ fpc = "fetch" /\ fReqs = <<>>
  /\ fDelays = <<>> /\ fRes = NoError /\ fCall = NoCall

\* The loop bound off by one.
LoopTestInclusive(i, attempts) == i <= attempts

\* for (let i = 0; i < attempts; i++)
LoopTest(i, attempts) == i < attempts

\* `return j` as its caller sees it: a direct call has returned; a loader
\* adapts and renders.
Returned(body) ==
  /\ fRes' = <<"json", body>>
  /\ IF fCaller \in RetryLoaders
     THEN fpc' = "done" /\ fCall' = Render(LoaderView(fCaller))
     ELSE fpc' = "returned" /\ fCall' = fCall

\* `throw lastErr` as its caller sees it: a loader catches, warns and clears.
Threw(e) ==
  /\ fRes' = e
  /\ IF fCaller \in RetryLoaders
     THEN fpc' = "done" /\ fCall' = Clear
     ELSE fpc' = "threw" /\ fCall' = fCall

\* i++ and the loop test: the next GET, or the loop ends and throws lastErr.
NextIteration(e) ==
  /\ fi' = fi + 1
  /\ IF LoopTest(fi + 1, fAttempts)
     THEN fpc' = "fetch" /\ fRes' = fRes /\ fCall' = fCall
     ELSE Threw(e)

\* The answer to the GET of attempt fi.
FetchAttempt(r) ==
  /\ fpc = "fetch" /\ fCaller \in {"call"} \cup RetryLoaders
  /\ fReqs' = Append(fReqs, r)
  /\ LET e == AttemptError(r, fAllowEmpty)
     IN IF e = NoError
        THEN /\ Returned(r.body)
             /\ UNCHANGED <<fi, fLastErr, fDelays>>
        ELSE /\ fLastErr' = e
             /\ IF MoreAttempts(fi, fAttempts)
                THEN /\ fpc' = "backoff"
                     /\ fDelays' = Append(fDelays, BackoffDelay(fDelay, fi))
                     /\ UNCHANGED <<fi, fRes, fCall>>
                ELSE /\ NextIteration(e)
                     /\ fDelays' = fDelays
  /\ UNCHANGED <<fCaller, fAttempts, fDelay, fAllowEmpty>>
  /\ UNCHANGED <<ctlVars, tagVars, probeVars, adaptVars, renderVars, freshVars, osmVars, dropVars>>

\* The backoff timeout has elapsed.
BackoffElapsed ==
  /\ fpc = "backoff"
  /\ NextIteration(fLastErr)
  /\ UNCHANGED <<fCaller, fAttempts, fDelay, fAllowEmpty, fLastErr, fReqs, fDelays>>
  /\ UNCHANGED <<ctlVars, tagVars, probeVars, adaptVars, renderVars, freshVars, osmVars, dropVars>>

\* part_001's loadContextGraphOnce: the answer to its one GET.
CtxDirectResp(r) ==
  /\ fpc = "fetch" /\ fCaller = "ctx001"
  /\ fReqs' = Append(fReqs, r)
  /\ fpc' = "done"
  /\ IF r.status = 404
     THEN fCall' = Clear /\ fRes' = fRes
     ELSE IF AttemptError(r, TRUE) # NoError
     THEN fCall' = Clear /\ fRes' = AttemptError(r, TRUE)
     ELSE fCall' = Render("context") /\ fRes' = <<"json", r.body>>
  /\ UNCHANGED <<fCaller, fAttempts, fDelay, fAllowEmpty, fi, fLastErr, fDelays>>
  /\ UNCHANGED <<ctlVars, tagVars, probeVars, adaptVars, renderVars, freshVars, osmVars, dropVars>>

NextLoad ==
  \/ \E r \in Responses : FetchAttempt(r)
  \/ BackoffElapsed
  \/ \E r \in Responses : CtxDirectResp(r)

\* --------------------------------- the enriched tag against a live backend
IdleTag == srv = "none" /\ seen = "none" /\ tagLast = NullTag

\* loadEnrichedGraphOnce has rendered the backend's payload and stored its tag.
InitTag ==
  /\ srv \in EnrichedPayloads
  /\ seen = srv
  /\ tagLast = Tag(srv)

\* The backend rewrites its latest iteration, or produces a new one.
ServerWrite(j) ==
  /\ j # srv
  /\ srv' = j
  /\ UNCHANGED <<seen, tagLast>>
  /\ UNCHANGED <<ctlVars, fetchVars, probeVars, adaptVars, renderVars, freshVars, osmVars, dropVars>>

\* One run of the interval callback whose fetch succeeds.
TagTick ==
  /\ IF TagChanged(Tag(srv), tagLast)
     THEN seen' = srv /\ tagLast' = Tag(srv)
     ELSE UNCHANGED <<seen, tagLast>>
  /\ srv' = srv
  /\ UNCHANGED <<ctlVars, fetchVars, probeVars, adaptVars, renderVars, freshVars, osmVars, dropVars>>

NextTag ==
  \/ \E j \in EnrichedPayloads : ServerWrite(j)
  \/ TagTick

\* ------------------------ findLatestEnrichedCandidate of part_000, stepwise
\* The file it<k>.json as the backend serves it: a non-empty graph.  Its
\* content is named by k; nodes.length and links.length depend on k.
FileNodes(k) == 1 + (k % MaxNodes)
FileLinks(k) == k % 2

\* `it${best.n}.json:${nodes.length}:${links.length}`; data is undefined
\* (0) when best is a probe that found nothing, and both lengths are then 0.
ProbeTag(best) ==
  <<"it", best.n,
    IF best.data = 0 THEN 0 ELSE FileNodes(best.data),
    IF best.data = 0 THEN 0 ELSE FileLinks(best.data)>>

\* What the backend answers GET it<k>.json with when nothing fails.
FileAnswer(k) ==
  IF k \in 1..pN THEN [status |-> 200, body |-> "g1"]
  ELSE [status |-> 404, body |-> "none"]

\* The answers a probe of it<k>.json can get: the file or a 404, or a
\* failure: network error, HTTP 500, text that is not JSON, an empty graph.
ProbeAnswers(k) ==
  {FileAnswer(k)} \cup {r \in Responses : r.status \in {0, 500}
                                          \/ r.body \in {"bad", "empty"}}

\* A 404 mistaken for every failure.
IsAbsentAnyError(e) == e # NoError

\* A 404 never recognised.
IsAbsentNever(e) == FALSE

\* String(e).includes("HTTP 404"), for the errors of AttemptError; the text
\* of a JSON syntax error is taken not to contain "HTTP 404".
IsAbsent(e) == e = <<"HTTP", 404>>

\* fetchEnrichedIfExists(k) on the answer r: fetchJsonWithRetry(url, 1, 0)
\* makes one attempt (part_000's has no allowEmpty: an empty graph throws).
\* A record {exists, n, data}, or the error thrown.
ProbeResult(k, r) ==
  LET e == AttemptError(r, FALSE)
  IN IF e = NoError THEN [exists |-> TRUE, n |-> k, data |-> k, err |-> NoError]
     ELSE IF IsAbsent(e) THEN [exists |-> FALSE, n |-> k, data |-> 0, err |-> NoError]
     ELSE [exists |-> FALSE, n |-> k, data |-> 0, err |-> e]

NoBest == [exists |-> FALSE, n |-> 0, data |-> 0, err |-> NoError]

IdleProbe ==
  /\ pN = 0 /\ pN0 = 0 /\ pCut = 0 /\ pn = 0 /\ pLastOk = 0 /\ pLo = 0 /\ pHi = 0 /\ pBest = NoBest
  /\ ppc = "idle" /\ pProbes = <<>> /\ pRes = NoError

\* let n = 1; let lastOk = 0; the first probe is issued.
InitProbe ==
  /\ pN \in 0..MaxIndex /\ pN0 = pN /\ pCut = ProbeCutoff
  /\ pn = 1 /\ pLastOk = 0 /\ pLo = 0 /\ pHi = 0 /\ pBest = NoBest
  /\ ppc = "phase1" /\ pProbes = <<>> /\ pRes = NoError

\* const mid = lo + ((hi - lo) >> 1)
Mid(lo, hi) == lo + ((hi - lo) \div 2)

\* The search step that gives up at the first missing file.
SearchStepStopsAtMiss(lo, hi, best, mid, res) ==
  IF res.exists THEN [lo |-> mid + 1, hi |-> hi, best |-> res]
  ELSE [lo |-> lo, hi |-> lo - 1, best |-> best]

\* The search step that forgets `best = res`.
SearchStepKeepsBest(lo, hi, best, mid, res) ==
  IF res.exists THEN [lo |-> mid + 1, hi |-> hi, best |-> best]
  ELSE [lo |-> lo, hi |-> mid - 1, best |-> best]

\* if (res.exists) { best = res; lo = mid + 1; } else { hi = mid - 1; }
SearchStep(lo, hi, best, mid, res) ==
  IF res.exists THEN [lo |-> mid + 1, hi |-> hi, best |-> res]
  ELSE [lo |-> lo, hi |-> mid - 1, best |-> best]

\* while (lo <= hi)
SearchOn(lo, hi) == lo <= hi

\* return { source: "probe", data, tag }
ProbeReturn(best) ==
  /\ ppc' = "returned"
  /\ pRes' = <<"probe", best.data, ProbeTag(best)>>

\* The error e leaves findLatestEnrichedCandidate.
ProbeThrow(e) ==
  /\ ppc' = "threw"
  /\ pRes' = e

\* The doubling never cut off.
BelowCutoffAlways(n, cut) == TRUE

\* if (n > 1 << 20) break, negated: the doubling goes on.
BelowCutoff(n, cut) == ~(n > cut)

\* The doubling without the factor.
NextProbeIndexLinear(n) == n + 1

\* n *= 2
NextProbeIndex(n) == n * 2

\* Phase 1: the answer to the probe of index n in the doubling loop.
Phase1Resp(r) ==
  /\ ppc = "phase1"
  /\ pProbes' = Append(pProbes, <<pn, r>>)
  /\ LET res == ProbeResult(pn, r)
     IN IF res.err # NoError
        THEN ProbeThrow(res.err) /\ UNCHANGED <<pn, pLastOk, pLo, pHi>>
        ELSE IF res.exists /\ BelowCutoff(pn, pCut)
        THEN \* lastOk = n; n *= 2; probe again
             /\ pLastOk' = pn /\ pn' = NextProbeIndex(pn)
             /\ UNCHANGED <<ppc, pRes, pLo, pHi>>
        ELSE LET lastOk == IF res.exists THEN pn ELSE pLastOk
             IN /\ pLastOk' = lastOk /\ pn' = pn
                /\ IF lastOk = 0
                   THEN /\ ProbeThrow(<<"No enriched iterations found">>)
                        /\ UNCHANGED <<pLo, pHi>>
                   ELSE \* lo = lastOk + 1, hi = n - 1; lastOk is probed again
                        /\ pLo' = lastOk + 1 /\ pHi' = pn - 1
                        /\ ppc' = "reprobe" /\ pRes' = pRes
  /\ UNCHANGED <<pN, pN0, pCut, pBest>>
  /\ UNCHANGED <<ctlVars, fetchVars, tagVars, adaptVars, renderVars, freshVars, osmVars, dropVars>>

\* best = await fetchEnrichedIfExists(lastOk): its answer.
ReprobeResp(r) ==
  /\ ppc = "reprobe"
  /\ pProbes' = Append(pProbes, <<pLastOk, r>>)
  /\ LET res == ProbeResult(pLastOk, r)
     IN IF res.err # NoError
        THEN ProbeThrow(res.err) /\ pBest' = pBest
        ELSE /\ pBest' = res
             /\ IF SearchOn(pLo, pHi)
                THEN ppc' = "phase2" /\ pRes' = pRes
                ELSE ProbeReturn(res)
  /\ UNCHANGED <<pN, pN0, pCut, pn, pLastOk, pLo, pHi>>
  /\ UNCHANGED <<ctlVars, fetchVars, tagVars, adaptVars, renderVars, freshVars, osmVars, dropVars>>

\* Phase 2: the answer to the probe of mid in the binary search.
Phase2Resp(r) ==
  /\ ppc = "phase2"
  /\ LET mid == Mid(pLo, pHi)
         res == ProbeResult(mid, r)
         st == SearchStep(pLo, pHi, pBest, mid, res)
     IN /\ pProbes' = Append(pProbes, <<mid, r>>)
        /\ IF res.err # NoError
           THEN ProbeThrow(res.err) /\ UNCHANGED <<pBest, pLo, pHi>>
           ELSE /\ pBest' = st.best /\ pLo' = st.lo /\ pHi' = st.hi
                /\ IF SearchOn(st.lo, st.hi)
                   THEN UNCHANGED <<ppc, pRes>>
                   ELSE ProbeReturn(st.best)
  /\ UNCHANGED <<pN, pN0, pCut, pn, pLastOk>>
  /\ UNCHANGED <<ctlVars, fetchVars, tagVars, adaptVars, renderVars, freshVars, osmVars, dropVars>>

NextProbe ==
  \/ \E r \in ProbeAnswers(pn) : Phase1Resp(r)
  \/ \E r \in ProbeAnswers(pLastOk) : ReprobeResp(r)
  \/ \E r \in ProbeAnswers(Mid(pLo, pHi)) : Phase2Resp(r)

\* The run with the cutoff scaled down to SmallCutoff, so that a backend of
\* MaxIndex files holds every index the doubling can reach.
InitProbeCut ==
  /\ pN \in 0..MaxIndex /\ pN0 = pN /\ pCut = SmallCutoff
  /\ pn = 1 /\ pLastOk = 0 /\ pLo = 0 /\ pHi = 0 /\ pBest = NoBest
  /\ ppc = "phase1" /\ pProbes = <<>> /\ pRes = NoError

\* The backend writes one more iteration file while the run is under way.
ProbeGrow ==
  /\ ppc \in {"phase1", "reprobe", "phase2"}
  /\ pN < MaxIndex
  /\ pN' = pN + 1
  /\ UNCHANGED <<pN0, pCut, pn, pLastOk, pLo, pHi, pBest, ppc, pProbes, pRes>>
  /\ UNCHANGED <<ctlVars, fetchVars, tagVars, adaptVars, renderVars, freshVars, osmVars, dropVars>>

NextProbeGrow ==
  \/ ProbeGrow
  \/ NextProbe

\* -------------------------------------------------------------- adaptGraph
\* A JavaScript object is a function from its own keys to their values; the
\* value null is Null, and a key that is absent reads as undefined.  null in
\* the place of an object is NullObj, {} is EmptyObj.
Null == "null"
NullObj == [k \in {"null"} |-> Null]
EmptyObj == [k \in {} |-> Null]

\* Array.isArray(a) ? a : [] works on these: an array, or anything else.
Arr(items) == [isArray |-> TRUE, items |-> items]
NotArr == [isArray |-> FALSE, items |-> <<>>]

\* o.k != null
Has(o, k) == k \in DOMAIN o /\ o[k] # Null

\* const { k1, k2, ...rest } = o
Rest(o, ks) == [k \in DOMAIN o \ ks |-> o[k]]

\* The raw nodes: x, y and id, each absent or set; or null.
NodeObjs ==
  {[k \in S |-> IF k = "x" THEN "1" ELSE IF k = "y" THEN "2" ELSE "n"] :
      S \in SUBSET {"x", "y", "id"}} \cup {NullObj}
\* The raw edges: source, target, u, v, each absent, null or set, and a
\* weight, absent or set; or null.
EdgeKeys == {"source", "target", "u", "v", "weight"}
EdgeObjs ==
  {e \in UNION {[S -> {Null, "s", "t", "u", "v", "w"}] : S \in SUBSET EdgeKeys} :
      \A k \in DOMAIN e :
        e[k] \in (IF k = "source" THEN {Null, "s"}
                  ELSE IF k = "target" THEN {Null, "t"}
                  ELSE IF k = "u" THEN {Null, "u"}
                  ELSE IF k = "v" THEN {Null, "v"} ELSE {"w"})}
    \cup {NullObj}
PlainNode == [k \in {"id", "x"} |-> IF k = "id" THEN "n" ELSE "1"]
PlainEdge == [k \in {"source", "target"} |-> IF k = "source" THEN "s" ELSE "t"]

RECURSIVE ListsOver(_, _)
\* The lists of length at most n over the set S.
ListsOver(S, n) ==
  IF n = 0 THEN {<<>>}
  ELSE LET shorter == ListsOver(S, n - 1)
       IN shorter \cup {Append(l, x) : l \in shorter, x \in S}

NodeLists == ListsOver(NodeObjs, MaxNodes)
\* An edge list: any edge first, then edges of {PlainEdge, null}.
EdgeLists ==
  {<<>>} \cup {<<e>> \o tl : e \in EdgeObjs,
                             tl \in ListsOver({PlainEdge, NullObj}, MaxEdges - 1)}

\* raw.meta: absent, null, an empty mapping, a mapping.
Metas == {"undefined", Null, "{}", "m"}

\* adaptGraph(null), adaptGraph(5): raw?.k is undefined for every key k.
NullRaw ==
  [nodes |-> NotArr, links |-> NotArr, edges |-> NotArr, meta |-> "undefined"]

\* The raw payloads adaptGraph is applied to: every node list with one plain
\* edge list, and every edge list under `links`, under `edges`, or under
\* both, with one plain node list.
RawGraphs ==
  {[nodes |-> ns, links |-> Arr(<<PlainEdge>>), edges |-> NotArr, meta |-> mt] :
      ns \in {Arr(l) : l \in NodeLists} \cup {NotArr}, mt \in Metas}
  \cup
  {[nodes |-> Arr(<<PlainNode>>), links |-> ls, edges |-> es, meta |-> "m"] :
      ls \in {Arr(l) : l \in EdgeLists} \cup {NotArr},
      es \in {NotArr, Arr(<<PlainEdge>>)}}
  \cup
  {[nodes |-> Arr(<<PlainNode>>), links |-> NotArr, edges |-> Arr(l), meta |-> "m"] :
      l \in EdgeLists}
  \cup {NullRaw}

\* Array.isArray(raw?.nodes) ? raw.nodes : []
InNodes(raw) == IF raw.nodes.isArray THEN raw.nodes.items ELSE <<>>

\* `edges` read before `links`.
InEdgesEdgesFirst(raw) ==
  IF raw.edges.isArray THEN raw.edges.items
  ELSE IF raw.links.isArray THEN raw.links.items ELSE <<>>

\* Array.isArray(raw?.links) ? raw.links
\*   : Array.isArray(raw?.edges) ? raw.edges : []
InEdges(raw) ==
  IF raw.links.isArray THEN raw.links.items
  ELSE IF raw.edges.isArray THEN raw.edges.items ELSE <<>>

\* Only x is stripped.
StripKeysOnlyX == {"x"}

\* const { x, y, ...rest } = (n || {})
StripKeys == {"x", "y"}

\* x is deleted, and y only when there was no x.
AdaptNodeElseIf(n) ==
  LET o == IF n = NullObj THEN EmptyObj ELSE n
  IN IF "x" \in DOMAIN o THEN Rest(o, {"x"}) ELSE Rest(o, {"y"})

\* n => { const { x, y, ...rest } = (n || {}); return rest; }
AdaptNode(n) ==
  LET o == IF n = NullObj THEN EmptyObj ELSE n
  IN Rest(o, StripKeys)

\* The edge is dropped only when both endpoints are missing.
DroppedBothMissing(source, target) == source = Null /\ target = Null

\* if (source == null || target == null) return null;
Dropped(source, target) == source = Null \/ target = Null

\* The endpoint: (e.own != null) ? e.own : (hasUV ? e.alt : undefined)
EndPoint(e, own, alt) ==
  IF Has(e, own) THEN e[own]
  ELSE IF Has(e, "u") /\ Has(e, "v") THEN e[alt] ELSE Null

\* The edge mapper: null for an edge that is dropped.
AdaptEdge(e) ==
  IF e = NullObj THEN NullObj
  ELSE LET source == EndPoint(e, "source", "u")
           target == EndPoint(e, "target", "v")
           rest == Rest(e, {"u", "v"})
       IN IF Dropped(source, target) THEN NullObj
          ELSE [k \in DOMAIN rest \cup {"source", "target"} |->
                  IF k = "source" THEN source
                  ELSE IF k = "target" THEN target ELSE rest[k]]

\* Array.prototype.map
MapSeq(F(_), s) == [i \in 1..Len(s) |-> F(s[i])]

\* Boolean(e) for the mapper's results: null is dropped, an object is kept.
Truthy(e) == e # NullObj

\* meta passed through without the default.
AdaptMetaNoDefault(mt) == mt

\* raw?.meta || {}
AdaptMeta(mt) == IF mt \in {"undefined", Null} THEN "{}" ELSE mt

\* adaptGraph(raw)
adaptGraph(raw) ==
  LET nodes == MapSeq(AdaptNode, InNodes(raw))
      edges == SelectSeq(MapSeq(AdaptEdge, InEdges(raw)), Truthy)
  IN [nodes |-> Arr(nodes), edges |-> Arr(edges), links |-> Arr(edges),
      meta |-> AdaptMeta(raw.meta)]

NoGraph == [nodes |-> NotArr, links |-> NotArr, edges |-> NotArr, meta |-> "undefined"]

IdleAdapt == aRaw = NoGraph /\ aOnce = NoGraph /\ aTwice = NoGraph /\ apc = "idle"

InitAdapt ==
  /\ aRaw \in RawGraphs
  /\ aOnce = NoGraph /\ aTwice = NoGraph /\ apc = "raw"

\* adapted = adaptGraph(raw)
AdaptOnce ==
  /\ apc = "raw"
  /\ aOnce' = adaptGraph(aRaw)
  /\ apc' = "once"
  /\ UNCHANGED <<aRaw, aTwice>>
  /\ UNCHANGED <<ctlVars, fetchVars, tagVars, probeVars, renderVars, freshVars, osmVars, dropVars>>

\* adaptGraph(adapted): the canonical output taken as a raw input
AdaptTwice ==
  /\ apc = "once"
  /\ aTwice' = adaptGraph(aOnce)
  /\ apc' = "twice"
  /\ UNCHANGED <<aRaw, aOnce>>
  /\ UNCHANGED <<ctlVars, fetchVars, tagVars, probeVars, renderVars, freshVars, osmVars, dropVars>>

NextAdapt == AdaptOnce \/ AdaptTwice

\* ------------------------------------- the graphs handed to the renderer
UVEdge == [k \in {"u", "v"} |-> k]

\* The payloads a backend answers with here: every node list of at most one
\* node with a plain edge, and a plain node with a u/v edge.
PayloadSamples ==
  {g \in RawGraphs :
      /\ g.meta = "m" /\ g.nodes.isArray /\ g.links.isArray /\ ~g.edges.isArray
      /\ Len(g.nodes.items) <= 1
      /\ \/ g.links.items = <<PlainEdge>>
         \/ g.links.items = <<UVEdge>> /\ g.nodes.items = <<PlainNode>>}

\* data.graph && data.graph.nodes?.length
HasNodes(g) == g.nodes.isArray /\ Len(g.nodes.items) > 0

IdleRender ==
  /\ rTab = "none" /\ rBrief = NoGraph /\ rHanded = NoGraph /\ rCall = NoCall

InitRender ==
  /\ rTab \in {"brief", "massing"}
  /\ rBrief = NoGraph /\ rHanded = NoGraph /\ rCall = NoCall

\* window._briefGraph = data.graph
StoredBrief(graph) == graph

\* handleUpload of chat.js, from the response on; graph is data.graph
\* (NullRaw when the response carries none).
UploadDone(graph) ==
  /\ IF HasNodes(graph)
     THEN /\ rBrief' = StoredBrief(graph)
          /\ IF rTab = "brief"
             THEN rHanded' = StoredBrief(graph) /\ rCall' = Render("brief")
             ELSE rHanded' = rHanded /\ rCall' = NoCall
     ELSE UNCHANGED <<rBrief, rHanded>> /\ rCall' = NoCall
  /\ rTab' = rTab
  /\ UNCHANGED <<ctlVars, fetchVars, tagVars, probeVars, adaptVars, freshVars, osmVars, dropVars>>

\* The brief branch of the tab handlers (click and DOMContentLoaded).
SelectBrief ==
  /\ rTab' = "brief"
  /\ IF rBrief # NoGraph
     THEN rHanded' = rBrief /\ rCall' = Render("brief")
     ELSE rHanded' = rHanded /\ rCall' = Clear
  /\ rBrief' = rBrief
  /\ UNCHANGED <<ctlVars, fetchVars, tagVars, probeVars, adaptVars, freshVars, osmVars, dropVars>>

\* A loader's success path, here loadMassingGraphOnce (tab click, page load
\* and detector tick all go through it): adapted = adaptGraph(data);
\* showGraph3DBackground(adapted).
LoadDone(data) ==
  /\ rTab' = "massing"
  /\ rHanded' = adaptGraph(data)
  /\ rCall' = Render("massing")
  /\ rBrief' = rBrief
  /\ UNCHANGED <<ctlVars, fetchVars, tagVars, probeVars, adaptVars, freshVars, osmVars, dropVars>>

NextRender ==
  \/ \E g \in PayloadSamples \cup {NullRaw} : UploadDone(g)
  \/ SelectBrief
  \/ \E g \in PayloadSamples : LoadDone(g)

\* ------------------------------- an mtime view against a changing backend
\* The massing branch of the tab handler (await loadMassingGraphOnce();
\* startMassingPolling()) and the interval callback, one request at a time,
\* each request answered from the backend's state at the moment it answers.
IdleFresh ==
  /\ qRev = 0 /\ qUp = TRUE /\ qOutages = 0 /\ qShown = 0 /\ qLast = 0
  /\ qpc = "none" /\ qTick = "idle"

\* The tab has just been selected: loadMassingGraphOnce awaits its fetch.
InitFresh ==
  /\ qRev \in 1..MaxMtime /\ qUp = TRUE /\ qOutages = 0
  /\ qShown = 0 /\ qLast = 0 /\ qpc = "load" /\ qTick = "idle"

\* The file is rewritten: its mtime grows.
BackendChange ==
  /\ qRev < MaxMtime
  /\ qRev' = qRev + 1
  /\ UNCHANGED <<qUp, qOutages, qShown, qLast, qpc, qTick>>
  /\ UNCHANGED <<ctlVars, fetchVars, tagVars, probeVars, adaptVars, renderVars, osmVars, dropVars>>

\* The backend stops answering, and answers again.
Outage ==
  /\ qUp /\ qOutages < MaxOutages
  /\ qUp' = FALSE /\ qOutages' = qOutages + 1
  /\ UNCHANGED <<qRev, qShown, qLast, qpc, qTick>>
  /\ UNCHANGED <<ctlVars, fetchVars, tagVars, probeVars, adaptVars, renderVars, osmVars, dropVars>>

Recover ==
  /\ ~qUp
  /\ qUp' = TRUE
  /\ UNCHANGED <<qRev, qOutages, qShown, qLast, qpc, qTick>>
  /\ UNCHANGED <<ctlVars, fetchVars, tagVars, probeVars, adaptVars, renderVars, osmVars, dropVars>>

\* loadMassingGraphOnce settles: the graph served now is rendered, a failure
\* clears.
Shown == IF qUp THEN qRev ELSE 0

\* The handler's loadMassingGraphOnce settles; startMassingPolling() runs to
\* its seed query.
FirstLoadDone ==
  /\ qpc = "load"
  /\ qShown' = Shown
  /\ qpc' = "seed"
  /\ UNCHANGED <<qRev, qUp, qOutages, qLast, qTick>>
  /\ UNCHANGED <<ctlVars, fetchVars, tagVars, probeVars, adaptVars, renderVars, osmVars, dropVars>>

\* try { ... _massingLastMtime = j0?.mtime || 0; } catch {}, then setInterval.
SeedDone ==
  /\ qpc = "seed"
  /\ qLast' = IF qUp THEN qRev ELSE qLast
  /\ qpc' = "polling"
  /\ UNCHANGED <<qRev, qUp, qOutages, qShown, qTick>>
  /\ UNCHANGED <<ctlVars, fetchVars, tagVars, probeVars, adaptVars, renderVars, osmVars, dropVars>>

\* The interval fires: the callback awaits its mtime query.
TickStart ==
  /\ qpc = "polling" /\ qTick = "idle"
  /\ qTick' = "mtime"
  /\ UNCHANGED <<qRev, qUp, qOutages, qShown, qLast, qpc>>
  /\ UNCHANGED <<ctlVars, fetchVars, tagVars, probeVars, adaptVars, renderVars, osmVars, dropVars>>

\* if (mtime && mtime !== _massingLastMtime) { _massingLastMtime = mtime;
\*   await loadMassingGraphOnce(); }   a throw is swallowed.
TickMtimeDone ==
  /\ qTick = "mtime"
  /\ IF qUp /\ Changed(qRev, qLast)
     THEN qLast' = qRev /\ qTick' = "load"
     ELSE qLast' = qLast /\ qTick' = "idle"
  /\ UNCHANGED <<qRev, qUp, qOutages, qShown, qpc>>
  /\ UNCHANGED <<ctlVars, fetchVars, tagVars, probeVars, adaptVars, renderVars, osmVars, dropVars>>

\* The callback's loadMassingGraphOnce settles.
TickLoadDone ==
  /\ qTick = "load"
  /\ qShown' = Shown
  /\ qTick' = "idle"
  /\ UNCHANGED <<qRev, qUp, qOutages, qLast, qpc>>
  /\ UNCHANGED <<ctlVars, fetchVars, tagVars, probeVars, adaptVars, renderVars, osmVars, dropVars>>

\* What the front end does: requests settle, the timer fires.
FrontEnd ==
  \/ FirstLoadDone
  \/ SeedDone
  \/ TickStart
  \/ TickMtimeDone
  \/ TickLoadDone

\* No request fails; the file changes.
NextFresh ==
  \/ BackendChange
  \/ FrontEnd

\* The file stays as it is; the backend has outages.
NextRecover ==
  \/ Outage
  \/ Recover
  \/ FrontEnd

\* ------------------------------------------------ the OSM job's poller
\* The click handler of saveContextBtn, for valid inputs: startOsm, then an
\* interval whose callback asks for the job's status every 3000 ms.
IdleOsm == oPc = "idle" /\ oSent = 0 /\ oInFlight = 0 /\ oStatus = "none"

\* What pollStatus(jobId) can settle with: a status that is not final, a
\* final one, { ok: false }, or a rejection.
StatusAnswers == {"running", "finished", "failed", "notok", "rejected"}

\* The text setStatus is called with for a final answer.
StatusText(st) ==
  CASE st = "finished" -> "OSM job finished. Importing into Rhino..."
    [] st = "failed" -> "OSM job failed. See FAILED.txt"
    [] st = "notok" -> "Status error"
    [] OTHER -> "Error checking job"

\* setStatus("Starting OSM job..."); startOsm(lat, lon, radius)
OsmSave ==
  /\ oPc = "idle"
  /\ oPc' = "starting" /\ oStatus' = "Starting OSM job..."
  /\ UNCHANGED <<oSent, oInFlight>>
  /\ UNCHANGED <<ctlVars, fetchVars, tagVars, probeVars, adaptVars, renderVars, freshVars, dropVars>>

\* startOsm settles: without a job no poller; with one, setInterval.
OsmStartResp(ok) ==
  /\ oPc = "starting"
  /\ IF ok
     THEN oPc' = "polling" /\ oStatus' = "OSM job running..."
     ELSE oPc' = "nojob" /\ oStatus' = "OSM job failed"
  /\ UNCHANGED <<oSent, oInFlight>>
  /\ UNCHANGED <<ctlVars, fetchVars, tagVars, probeVars, adaptVars, renderVars, freshVars, dropVars>>

\* The interval fires: pollStatus(jobId) is issued, whatever is in flight.
OsmTick ==
  /\ oPc = "polling"
  /\ oSent < MaxSent /\ oInFlight < MaxPolls
  /\ oSent' = oSent + 1 /\ oInFlight' = oInFlight + 1
  /\ UNCHANGED <<oPc, oStatus>>
  /\ UNCHANGED <<ctlVars, fetchVars, tagVars, probeVars, adaptVars, renderVars, freshVars, dropVars>>

\* One pollStatus settles (any of those in flight): a final answer clears
\* the interval and sets the status text.
OsmStatusResp(st) ==
  /\ oInFlight > 0
  /\ oInFlight' = oInFlight - 1
  /\ IF st = "running"
     THEN UNCHANGED <<oPc, oStatus>>
     ELSE oPc' = "stopped" /\ oStatus' = StatusText(st)
  /\ oSent' = oSent
  /\ UNCHANGED <<ctlVars, fetchVars, tagVars, probeVars, adaptVars, renderVars, freshVars, dropVars>>

NextOsm ==
  \/ OsmSave
  \/ \E ok \in BOOLEAN : OsmStartResp(ok)
  \/ OsmTick
  \/ \E st \in StatusAnswers : OsmStatusResp(st)

\* -------------------------------------------------- the sticky dropdown
IdleDrop ==
  /\ dShown = FALSE /\ dHandle = 0 /\ dPending = {} /\ dNext = 1
  /\ dOpened = FALSE

\* open = () => { clearTimeout(hideTimeout); display = "block"; ... }
OpenDrop ==
  /\ dPending' = dPending \ {dHandle}
  /\ dShown' = TRUE
  /\ UNCHANGED <<dHandle, dNext>>

\* scheduleClose = () => { hideTimeout = setTimeout(hide, 200); }
ScheduleClose ==
  /\ dNext <= MaxTimeouts
  /\ dHandle' = dNext /\ dPending' = dPending \cup {dNext}
  /\ dNext' = dNext + 1
  /\ dShown' = dShown

\* clearTimeout(hideTimeout); display = "none"; ...
HideNow ==
  /\ dPending' = dPending \ {dHandle}
  /\ dShown' = FALSE
  /\ UNCHANGED <<dHandle, dNext>>

\* mouseenter on the pill or the dropdown, focusin inside the dropdown.
DropEnter ==
  /\ OpenDrop /\ dOpened' = TRUE
  /\ UNCHANGED <<ctlVars, fetchVars, tagVars, probeVars, adaptVars, renderVars, freshVars, osmVars>>

\* mouseleave on the pill or the dropdown.
DropLeave ==
  /\ ScheduleClose /\ dOpened' = FALSE
  /\ UNCHANGED <<ctlVars, fetchVars, tagVars, probeVars, adaptVars, renderVars, freshVars, osmVars>>

\* click on the pill: if (visible) scheduleClose(); else open();
DropToggle ==
  /\ IF dShown
     THEN ScheduleClose /\ dOpened' = FALSE
     ELSE OpenDrop /\ dOpened' = TRUE
  /\ UNCHANGED <<ctlVars, fetchVars, tagVars, probeVars, adaptVars, renderVars, freshVars, osmVars>>

\* click outside the pill and the dropdown, or the Escape key.
DropDismiss ==
  /\ HideNow /\ dOpened' = FALSE
  /\ UNCHANGED <<ctlVars, fetchVars, tagVars, probeVars, adaptVars, renderVars, freshVars, osmVars>>

\* A close timer's 200 ms have passed: its callback hides the dropdown.
DropTimeout(h) ==
  /\ h \in dPending
  /\ dPending' = dPending \ {h}
  /\ dShown' = FALSE
  /\ UNCHANGED <<dHandle, dNext, dOpened>>
  /\ UNCHANGED <<ctlVars, fetchVars, tagVars, probeVars, adaptVars, renderVars, freshVars, osmVars>>

NextDrop ==
  \/ DropEnter
  \/ DropLeave
  \/ DropToggle
  \/ DropDismiss
  \/ \E h \in dPending : DropTimeout(h)

\* ------------------------------------------------------------ specifications
\* A tab handler together with the start...Polling() it launched.
HandlerInFlight == \E t \in BagToSet(tasks) : t.k = "handler"

\* Every click comes after the previous handler has run to completion.
NextSeq ==
  \/ Boot
  \/ ~HandlerInFlight /\ \E tab \in Tabs : Click(tab)
  \/ ~HandlerInFlight /\ Unload
  \/ \E b \in BOOLEAN : UploadResp(b)
  \/ \E t \in BagToSet(tasks), r \in Responses : ContextResp(t, r)
  \/ \E t \in BagToSet(tasks), ok \in BOOLEAN : LoadResp(t, ok)
  \/ \E t \in BagToSet(tasks), r \in MtimeAnswers : SeedResp(t, r)
  \/ \E tm \in timers : TickFire(tm)
  \/ \E t \in BagToSet(tasks), r \in MtimeAnswers : MtimeResp(t, r)
  \/ \E t \in BagToSet(tasks), ok \in BOOLEAN, j \in LatestAnswers :
        EnrichedStartResp(t, ok, j)
  \/ \E t \in BagToSet(tasks), ok \in BOOLEAN, j \in LatestAnswers :
        EnrichedTickResp(t, ok, j)

CtlAtRest ==
  /\ activeTab = "other" /\ booted = FALSE /\ unloaded = FALSE
  /\ poll = [v \in PollViews |-> 0] /\ timers = {}
  /\ last = [v \in PollViews |-> IF v = "enriched" THEN NullTag ELSE 0]
  /\ tasks = EmptyBag /\ briefGraph = FALSE /\ vis = "none" /\ ev = NoCall

Init == InitCtl /\ IdleFetch /\ IdleTag /\ IdleProbe /\ IdleAdapt /\ IdleRender /\ IdleFresh /\ IdleOsm /\ IdleDrop

Next == NextCtl

\* The controller under any interleaving.
Spec == Init /\ [][Next]_vars

\* The controller when clicks wait for the previous handler.
SpecSeq == Init /\ [][NextSeq]_vars

\* The controller from the moment the backend goes down for good, a polling
\* view selected, its graph rendered and its timer live: every request made
\* from then on fails.
Down == {r \in Responses : r.status \in {0, 500}}

InitDownCtl ==
  /\ activeTab \in PollViews
  /\ booted = TRUE /\ unloaded = FALSE
  /\ poll = [v \in PollViews |-> IF v = activeTab THEN 1 ELSE 0]
  /\ timers = {<<1, activeTab>>}
  /\ \E m \in 1..MaxRev, j \in LatestAnswers :
        last = [v \in PollViews |->
                  IF v # activeTab THEN (IF v = "enriched" THEN NullTag ELSE 0)
                  ELSE IF v = "enriched" THEN Tag(j) ELSE m]
  /\ tasks = EmptyBag /\ briefGraph = FALSE
  /\ vis = activeTab /\ ev = NoCall

InitDown ==
  InitDownCtl /\ IdleFetch /\ IdleTag /\ IdleProbe /\ IdleAdapt /\ IdleRender /\ IdleFresh /\ IdleOsm /\ IdleDrop

TickDown == \E tm \in timers : TickFire(tm)

\* The request a tab handler awaits fails.
HandlerAnswerDown ==
  \/ \E t \in BagToSet(tasks), r \in Down : ContextResp(t, r)
  \/ \E t \in BagToSet(tasks) : t.k = "handler" /\ LoadResp(t, FALSE)
  \/ \E t \in BagToSet(tasks) : SeedResp(t, [ok |-> FALSE, mtime |-> 0])
  \/ \E t \in BagToSet(tasks), j \in LatestAnswers : EnrichedStartResp(t, FALSE, j)

\* The request a timer callback of view v awaits fails.
TickAnswerDown(v) ==
  \/ \E t \in BagToSet(tasks) :
        t.v = v /\ MtimeResp(t, [ok |-> FALSE, mtime |-> 0])
  \/ \E t \in BagToSet(tasks), j \in LatestAnswers :
        t.v = v /\ EnrichedTickResp(t, FALSE, j)

NextDown ==
  \/ ~HandlerInFlight /\ \E tab \in Tabs : Click(tab)
  \/ TickDown
  \/ HandlerAnswerDown
  \/ \E v \in PollViews : TickAnswerDown(v)

\* Timers fire and every request settles; the user need not click.
SpecDown ==
  /\ InitDown /\ [][NextDown]_vars
  /\ WF_vars(TickDown) /\ WF_vars(HandlerAnswerDown)
  /\ \A v \in PollViews : WF_vars(TickAnswerDown(v))

\* One call of fetchJsonWithRetry or of a context loader.
InitLoadOnly == CtlAtRest /\ InitLoad /\ IdleTag /\ IdleProbe /\ IdleAdapt /\ IdleRender /\ IdleFresh /\ IdleOsm /\ IdleDrop

SpecLoad == InitLoadOnly /\ [][NextLoad]_vars

\* The enriched detector's tag while the backend changes.
InitTagOnly == CtlAtRest /\ IdleFetch /\ InitTag /\ IdleProbe /\ IdleAdapt /\ IdleRender /\ IdleFresh /\ IdleOsm /\ IdleDrop

SpecTag == InitTagOnly /\ [][NextTag]_vars

\* One run of findLatestEnrichedCandidate against a backend of pN files.
InitProbeOnly == CtlAtRest /\ IdleFetch /\ IdleTag /\ InitProbe /\ IdleAdapt /\ IdleRender /\ IdleFresh /\ IdleOsm /\ IdleDrop

SpecProbe == InitProbeOnly /\ [][NextProbe]_vars

\* The run with a low cutoff; every probe is answered.
InitProbeCutOnly ==
  /\ CtlAtRest /\ IdleFetch /\ IdleTag /\ InitProbeCut /\ IdleAdapt /\ IdleRender
  /\ IdleFresh /\ IdleOsm /\ IdleDrop

SpecProbeCut == InitProbeCutOnly /\ [][NextProbe]_vars /\ WF_vars(NextProbe)

\* The run against a backend that adds files meanwhile.
InitProbeGrowOnly ==
  /\ CtlAtRest /\ IdleFetch /\ IdleTag /\ InitProbe /\ IdleAdapt /\ IdleRender
  /\ IdleFresh /\ IdleOsm /\ IdleDrop

SpecProbeGrow == InitProbeGrowOnly /\ [][NextProbeGrow]_vars

\* adaptGraph on the raw payloads of RawGraphs.
InitAdaptOnly == CtlAtRest /\ IdleFetch /\ IdleTag /\ IdleProbe /\ InitAdapt /\ IdleRender /\ IdleFresh /\ IdleOsm /\ IdleDrop

SpecAdapt == InitAdaptOnly /\ [][NextAdapt]_vars

\* The paths on which a graph reaches showGraph3DBackground.
InitRenderOnly ==
  CtlAtRest /\ IdleFetch /\ IdleTag /\ IdleProbe /\ IdleAdapt /\ InitRender /\ IdleFresh /\ IdleOsm /\ IdleDrop

SpecRender == InitRenderOnly /\ [][NextRender]_vars

\* One sticky dropdown under any sequence of pointer, click and key events.
InitDropOnly ==
  /\ CtlAtRest /\ IdleFetch /\ IdleTag /\ IdleProbe /\ IdleAdapt /\ IdleRender
  /\ IdleFresh /\ IdleOsm /\ IdleDrop

SpecDrop == InitDropOnly /\ [][NextDrop]_vars

\* One OSM job and its status poller.
InitOsmOnly ==
  /\ CtlAtRest /\ IdleFetch /\ IdleTag /\ IdleProbe /\ IdleAdapt /\ IdleRender
  /\ IdleFresh /\ IdleOsm /\ IdleDrop

SpecOsm == InitOsmOnly /\ [][NextOsm]_vars

\* An mtime view activated while the file changes; requests settle and the
\* timer fires (the front end never has two steps to choose from).
InitFreshOnly ==
  /\ CtlAtRest /\ IdleFetch /\ IdleTag /\ IdleProbe /\ IdleAdapt /\ IdleRender
  /\ InitFresh /\ IdleOsm /\ IdleDrop

SpecFresh == InitFreshOnly /\ [][NextFresh]_vars /\ WF_vars(FrontEnd)

\* An mtime view activated while the backend has outages that end.
InitRecoverOnly ==
  /\ CtlAtRest /\ IdleFetch /\ IdleTag /\ IdleProbe /\ IdleAdapt /\ IdleRender
  /\ InitFresh /\ IdleOsm /\ IdleDrop

SpecRecover ==
  /\ InitRecoverOnly /\ [][NextRecover]_vars
  /\ WF_vars(FrontEnd) /\ WF_vars(Recover)

\* ===================================================================== claims
TimerViews == {tm[2] : tm \in timers}
TickLoads(v) == CopiesIn(Task("tick", v, "load"), tasks)

\* C1: in every reachable state at most one view (massing, masterplan,
\* enriched) has a live polling timer.
C1_AtMostOneViewPolls == Cardinality(TimerViews) <= 1

\* C2: no polling timer is live for a view other than the selected tab: a
\* handler that resumes after another tab was selected starts no timer.
C2_TimersOnlyForActiveTab == \A tm \in timers : tm[2] = activeTab

\* The selected view's timers are the only live ones.
C3_NoTimerAfterSwitch == \A tm \in timers : tm[2] = activeTab

\* A timer callback starts a reload (mtime views) or renders (enriched view)
\* only for the selected view.
C3_NoReloadAfterSwitch ==
  /\ \A v \in MtimeViews : TickLoads(v)' > TickLoads(v) => activeTab = v
  /\ (TickLoads("enriched")' < TickLoads("enriched") /\ ev' = Render("enriched"))
        => activeTab = "enriched"

\* C3: with every click made after the previous handler has completed, the
\* only live timers are the selected view's (none for context, brief or an
\* unknown tab), and no reload of a view that has been left is triggered: no
\* reload of an mtime view starts and no enriched tick renders unless that
\* view is the selected one.
C3_SwitchStopsLeftView ==
  [](C3_NoTimerAfterSwitch) /\ [][C3_NoReloadAfterSwitch]_vars

\* C4: every live timer of a view is the one whose handle the view stores,
\* so at most one per view and stop() cancels it, also after start() calls
\* that overlap.
C4_LiveTimerIsTheStoredOne == \A tm \in timers : poll[tm[2]] = tm[1]

\* C5: once the beforeunload handler has run no timer is live, whatever was
\* in flight at that moment.
C5_NoTimerAfterUnload == unloaded => timers = {}

\* What the mtime callback owes for the answer r to query t.
C6_MtimeTick(t, r) ==
  IF r.mtime # 0 /\ r.mtime # last[t.v]
  THEN /\ TickLoads(t.v)' = TickLoads(t.v) + 1
       /\ last'[t.v] = r.mtime
  ELSE /\ TickLoads(t.v)' = TickLoads(t.v)
       /\ ev' = NoCall /\ vis' = vis /\ last' = last

\* What the enriched callback owes for the payload j.
C6_EnrichedTick(j) ==
  IF Tag(j) # last["enriched"]
  THEN ev' = Render("enriched") /\ last'["enriched"] = Tag(j)
  ELSE ev' = NoCall /\ vis' = vis /\ last' = last

C6_TickStep ==
  /\ \A t \in BagToSet(tasks), r \in MtimeAnswers :
        (r.ok /\ MtimeResp(t, r)) => C6_MtimeTick(t, r)
  /\ \A t \in BagToSet(tasks), j \in LatestAnswers :
        EnrichedTickResp(t, TRUE, j) => C6_EnrichedTick(j)

\* C6: a tick whose signal equals the stored value starts no reload, makes
\* no render call and leaves the stored value; a tick whose signal is present
\* and differs starts exactly one reload (for the enriched view: renders
\* once) and stores the signal, so the same signal is unchanged from then on.
C6_ReloadOnlyOnChange == [][C6_TickStep]_vars

\* A tick has found a changed mtime: its reload is in flight.
C6_Witness == \E v \in MtimeViews : TickLoads(v) > 0 /\ last[v] = MaxRev

\* C7: the stored tag equals the backend payload's tag while the payload is
\* the one the tag was computed from, and differs from it once the payload
\* has changed in any way.
C7_TagTellsContentApart ==
  /\ srv = seen => Tag(srv) = tagLast
  /\ srv # seen => Tag(srv) # tagLast

\* Attempt k failed: it threw instead of returning its body.
C8_Failed(k) == AttemptError(fReqs[k], fAllowEmpty) # NoError

\* C8: a call with attempts >= 1 issues at most `attempts` GETs; it returns
\* the body of the first attempt that succeeds, right at that attempt; it
\* throws only after `attempts` failed attempts, and then the last one's error.
C8_FetchJsonContract ==
  fCaller = "call" =>
    /\ Len(fReqs) <= fAttempts
    /\ fpc = "returned" =>
         /\ Len(fReqs) >= 1
         /\ ~C8_Failed(Len(fReqs))
         /\ \A k \in 1..(Len(fReqs) - 1) : C8_Failed(k)
         /\ fRes = <<"json", fReqs[Len(fReqs)].body>>
    /\ fpc = "threw" =>
         /\ Len(fReqs) = fAttempts
         /\ \A k \in 1..fAttempts : C8_Failed(k)
         /\ fRes = AttemptError(fReqs[fAttempts], fAllowEmpty)
    /\ fpc \in {"fetch", "backoff"} => \A k \in 1..Len(fReqs) : C8_Failed(k)

\* Three attempts failed in different ways; the last error is the one thrown.
C8_Witness ==
  /\ fCaller = "call" /\ fpc = "threw" /\ fAttempts = MaxAttempts
  /\ fReqs[1].status = 404 /\ fReqs[fAttempts].status = 500

\* Every answer so far was a 2xx with an empty graph.
C9_AllEmpty ==
  /\ Len(fReqs) >= 1
  /\ \A k \in 1..Len(fReqs) : fReqs[k] = [status |-> 200, body |-> "empty"]

\* C9: when every answer is a 2xx with an empty graph, a call with
\* allowEmpty = false throws "Empty graph payload" after exactly `attempts`
\* GETs, and a call with allowEmpty = true returns the first one after one GET.
C9_EmptyGraphPolicy ==
  (fCaller = "call" /\ C9_AllEmpty) =>
    IF fAllowEmpty
    THEN Len(fReqs) = 1 /\ fpc = "returned" /\ fRes = <<"json", "empty">>
    ELSE /\ fpc # "returned"
         /\ fpc = "threw" <=> (Len(fReqs) = fAttempts /\ fi = fAttempts)
         /\ fpc = "threw" => fRes = <<"Empty graph payload">>

\* Every attempt of a call with allowEmpty = false got an empty graph.
C9_Witness ==
  /\ fCaller = "call" /\ C9_AllEmpty /\ ~fAllowEmpty
  /\ fpc = "threw" /\ fAttempts = MaxAttempts

\* C10: once GET /graph/context has answered 404 the context loader is done:
\* one GET, no backoff, clear() called, nothing thrown.
C10_Context404IsFinal ==
  (fCaller \in {"ctxApp", "ctx001"} /\ Len(fReqs) >= 1 /\ fReqs[1].status = 404) =>
    /\ fpc = "done"
    /\ Len(fReqs) = 1
    /\ fDelays = <<>>
    /\ fCall = Clear

\* C11: the massing loader accepts an empty massing graph: once GET
\* /graph/massing has answered 2xx with an empty graph the loader is done
\* after that one GET, with no backoff, having rendered the graph.
C11_MassingAcceptsEmpty ==
  (/\ fCaller \in {"massing001", "massingApp"}
   /\ Len(fReqs) >= 1
   /\ fReqs[1] = [status |-> 200, body |-> "empty"]) =>
    /\ fpc = "done"
    /\ Len(fReqs) = 1
    /\ fDelays = <<>>
    /\ fCall = Render("massing")

\* C12 as stated: the delay waited before attempt i (0-indexed, i >= 1) is
\* delayMs * (1 + i), and none is waited after the final attempt.
C12_DelayBeforeAttempt ==
  fCaller = "call" =>
    /\ \A i \in 1..Len(fDelays) : fDelays[i] = fDelay * (1 + i)
    /\ Len(fDelays) <= fAttempts - 1

\* C12: the delay waited after the failed attempt i (0-indexed), that is
\* before attempt i + 1, is delayMs * (1 + i); one delay is waited after
\* every failed attempt but the final one, none before attempt 0 and none
\* after the final attempt.
C12_DelayAfterFailedAttempt ==
  fCaller = "call" =>
    /\ \A i \in 0..(Len(fDelays) - 1) : fDelays[i + 1] = fDelay * (1 + i)
    /\ Len(fDelays) <= fAttempts - 1
    /\ fpc = "fetch" => Len(fDelays) = Len(fReqs)
    /\ fpc = "backoff" => Len(fDelays) = Len(fReqs)
    /\ fpc = "returned" => Len(fDelays) = Len(fReqs) - 1
    /\ fpc = "threw" => Len(fDelays) = fAttempts - 1

\* Every attempt of a call with a non-zero delay failed: two backoffs waited.
C12_Witness ==
  /\ fCaller = "call" /\ fpc = "threw" /\ fDelay = 700
  /\ fAttempts = MaxAttempts /\ Len(fDelays) = MaxAttempts - 1

\* The backend was static and nothing failed: every probe so far got the
\* file when its index is one of 1..pN and a 404 otherwise.
ProbeStatic ==
  \A i \in 1..Len(pProbes) : pProbes[i][2] = FileAnswer(pProbes[i][1])

\* The answer r is a failure other than a 404.
ProbeFailure(r) ==
  /\ AttemptError(r, FALSE) # NoError
  /\ r.status # 404

\* C13: against a static backend holding exactly it1.json .. itN.json
\* (N >= 1) the run does not throw, and when it returns, it returns the
\* payload of index N with the tag naming index N and that payload's counts.
C13_FindsLatest ==
  (pN >= 1 /\ ProbeStatic) =>
    /\ ppc # "threw"
    /\ ppc = "returned" =>
         pRes = <<"probe", pN, <<"it", pN, FileNodes(pN), FileLinks(pN)>>>>

\* A run against the largest backend has returned after both phases.
C13_Witness ==
  /\ ppc = "returned" /\ ProbeStatic /\ pN = MaxIndex
  /\ \E i \in 1..Len(pProbes) : pProbes[i][1] > pN

\* C14: a probe answered by a failure other than a 404 (network error,
\* non-404 status, malformed JSON) is the run's last probe and the run has
\* thrown that failure's error; a run that returned met no such failure and
\* returned index pN, never a lower one.
C14_ProbeFailurePropagates ==
  /\ \A i \in 1..Len(pProbes) :
        ProbeFailure(pProbes[i][2]) =>
          /\ i = Len(pProbes)
          /\ ppc = "threw"
          /\ pRes = AttemptError(pProbes[i][2], FALSE)
  /\ ppc = "returned" =>
        /\ \A i \in 1..Len(pProbes) : ~ProbeFailure(pProbes[i][2])
        /\ pRes[2] = pN

\* A probe of the binary search got malformed JSON.
C14_Witness ==
  /\ ppc = "threw" /\ Len(pProbes) >= 4
  /\ pProbes[Len(pProbes)][2] = [status |-> 200, body |-> "bad"]
  /\ pProbes[Len(pProbes)][1] \in (pLastOk + 1)..(pn - 1)

\* C15: when the probe of index 1 is answered 404 the run has thrown the
\* "no iterations found" error after that one probe, and returns nothing.
C15_NoIterationsFound ==
  (Len(pProbes) >= 1 /\ pProbes[1][2].status = 404) =>
    /\ Len(pProbes) = 1
    /\ ppc = "threw"
    /\ pRes = <<"No enriched iterations found">>

\* The backend holds no file and index 1 has been probed.
C15_Witness == pN = 0 /\ Len(pProbes) = 1 /\ pProbes[1][2].status = 404

RECURSIVE Log2(_)
\* floor(log2 n) for n >= 1
Log2(n) == IF n <= 1 THEN 0 ELSE 1 + Log2(n \div 2)

\* C16: against a static backend holding exactly it1.json .. itN.json
\* (N >= 1) a run makes at most 2 * floor(log2 N) + 3 probes.
C16_ProbesLogarithmic ==
  (pN >= 1 /\ ProbeStatic) => Len(pProbes) <= 2 * Log2(pN) + 3

\* A run over at least 8 files has returned using the whole budget.
C16_Witness ==
  /\ ppc = "returned" /\ ProbeStatic /\ pN >= 8
  /\ Len(pProbes) = 2 * Log2(pN) + 3

\* C17: adaptGraph applied to its own output yields that output again:
\* the same nodes, edges, links and meta.
C17_AdaptIdempotent == apc = "twice" => aTwice = aOnce

\* The output of a payload whose node carries x and whose edge carries u
\* has been adapted again.
C17_Witness ==
  /\ apc = "twice"
  /\ \E i \in 1..Len(InNodes(aRaw)) : "x" \in DOMAIN InNodes(aRaw)[i]
  /\ \E i \in 1..Len(InEdges(aRaw)) : Has(InEdges(aRaw)[i], "u")
  /\ Len(aOnce.edges.items) >= 1

\* The edge the claim gives for the input edge e, NullObj when it gives none:
\* both endpoints from source/target when that pair is present, both from
\* u/v when only that pair is, none otherwise; u and v removed, the other
\* keys kept.
C18_EdgeByPairs(e) ==
  LET keep == [k \in {"source", "target"} |-> Null] @@ Rest(e, {"u", "v"})
  IN IF e = NullObj THEN NullObj
     ELSE IF Has(e, "source") /\ Has(e, "target")
     THEN [keep EXCEPT !["source"] = e["source"], !["target"] = e["target"]]
     ELSE IF Has(e, "u") /\ Has(e, "v")
     THEN [keep EXCEPT !["source"] = e["u"], !["target"] = e["v"]]
     ELSE NullObj

\* C18: the output edges are, in order, the edges the pairs give: endpoints
\* from source/target when that pair is present, from u/v when only u/v is,
\* no edge when neither pair is fully present; no u or v key, every other
\* key passed through.
C18_EndpointsByPairs ==
  apc = "once" =>
    aOnce.edges.items = SelectSeq(MapSeq(C18_EdgeByPairs, InEdges(aRaw)), Truthy)

\* C19: every edge of the output has a non-null source and a non-null
\* target, after one application and after two.
C19_EdgesHaveEndpoints ==
  \A g \in {aOnce, aTwice} :
    \A i \in 1..Len(g.edges.items) :
      Has(g.edges.items[i], "source") /\ Has(g.edges.items[i], "target")

\* An edge was kept and another one (null or lacking an endpoint) dropped.
C19_Witness ==
  /\ apc = "once"
  /\ Len(aOnce.edges.items) >= 1
  /\ Len(aOnce.edges.items) < Len(InEdges(aRaw))
  /\ \E i \in 1..Len(InEdges(aRaw)) :
        InEdges(aRaw)[i] # NullObj /\ ~Has(InEdges(aRaw)[i], "target")

\* C20: the output has as many nodes as the input, in the same order; each
\* has no x and no y key and every other key of its input node, with its
\* value (a null node gives an empty node).
C20_NodesStripped ==
  apc = "once" =>
    /\ Len(aOnce.nodes.items) = Len(InNodes(aRaw))
    /\ \A i \in 1..Len(InNodes(aRaw)) :
          LET n == InNodes(aRaw)[i]
              keys == IF n = NullObj THEN {} ELSE DOMAIN n \ {"x", "y"}
              out == aOnce.nodes.items[i]
          IN DOMAIN out = keys /\ \A k \in keys : out[k] = n[k]

\* A full node list with a node carrying x, y and id was adapted.
C20_Witness ==
  /\ apc = "once" /\ Len(InNodes(aRaw)) = MaxNodes
  /\ \E i \in 1..Len(InNodes(aRaw)) : DOMAIN InNodes(aRaw)[i] = {"x", "y", "id"}
  /\ InNodes(aRaw)[1] # InNodes(aRaw)[MaxNodes]

\* C21: in every graph adaptGraph produces, edges and links hold the same
\* sequence, and meta is the input's meta, or an empty mapping when the
\* input has none (absent or null).
C21_LinksAreEdgesMetaKept ==
  /\ apc \in {"once", "twice"} =>
        /\ aOnce.links = aOnce.edges
        /\ aOnce.meta = (IF aRaw.meta \in {"undefined", Null} THEN "{}" ELSE aRaw.meta)
  /\ apc = "twice" =>
        /\ aTwice.links = aTwice.edges
        /\ aTwice.meta = aOnce.meta

\* A payload without meta and with an edge that is kept was adapted.
C21_Witness ==
  /\ apc = "once" /\ aRaw.meta = "undefined"
  /\ Len(aOnce.edges.items) >= 1

\* C22: for every raw input, also null or a non-object, with nodes or edges
\* absent or not a sequence, and with null entries, the result is a
\* canonical graph: nodes, edges and links are sequences of objects, meta is
\* a mapping; there is one node per input node, and the edges are those of
\* `links` when it is a sequence, else of `edges`, else none.
C22_AdaptTotal ==
  apc = "once" =>
    LET chosen == IF aRaw.links.isArray THEN aRaw.links.items
                  ELSE IF aRaw.edges.isArray THEN aRaw.edges.items ELSE <<>>
    IN /\ aOnce.nodes.isArray /\ aOnce.edges.isArray /\ aOnce.links.isArray
       /\ aOnce.meta \notin {"undefined", Null}
       /\ \A i \in 1..Len(aOnce.nodes.items) : aOnce.nodes.items[i] # NullObj
       /\ \A i \in 1..Len(aOnce.edges.items) : aOnce.edges.items[i] # NullObj
       /\ Len(aOnce.nodes.items) =
            (IF aRaw.nodes.isArray THEN Len(aRaw.nodes.items) ELSE 0)
       /\ aOnce.edges.items = SelectSeq(MapSeq(AdaptEdge, chosen), Truthy)

\* `links` was no sequence, `edges` one with a null entry and a kept edge.
C22_Witness ==
  /\ apc = "once" /\ ~aRaw.links.isArray /\ aRaw.edges.isArray
  /\ \E i \in 1..Len(aRaw.edges.items) : aRaw.edges.items[i] = NullObj
  /\ Len(aOnce.edges.items) >= 1

\* The canonical invariants: no x or y on a node, a source and a target on
\* every edge, edges equal to links.
C23_Canonical(g) ==
  /\ g.nodes.isArray /\ g.edges.isArray /\ g.links.isArray
  /\ \A i \in 1..Len(g.nodes.items) : DOMAIN g.nodes.items[i] \cap {"x", "y"} = {}
  /\ \A i \in 1..Len(g.edges.items) :
        Has(g.edges.items[i], "source") /\ Has(g.edges.items[i], "target")
  /\ g.edges = g.links

\* C23: every graph handed to the renderer, on every path (a loader, the
\* brief tab, the completion of an upload), satisfies the canonical
\* invariants of adaptGraph's outputs.
C23_RenderedGraphsCanonical ==
  rCall[1] = "render" => C23_Canonical(rHanded)

\* C24: the handler of the brief tab (click or page load) starts no backend
\* request and either renders the in-memory brief graph or clears; the brief
\* graph changes only when an upload answers with a graph that has nodes.
C24_BriefIsLocal ==
  [][/\ (Click("brief") \/ (Boot /\ activeTab = "brief")) =>
          /\ tasks' = tasks
          /\ ev' = IF briefGraph THEN Render("brief") ELSE Clear
     /\ briefGraph' # briefGraph => briefGraph' /\ UploadResp(TRUE)]_vars

C24_Witness ==
  /\ activeTab = "brief" /\ briefGraph /\ ev = Render("brief") /\ vis = "brief"
  /\ timers = {}

\* C25: every loader invocation ends with one call of the render
\* collaborator, render when its fetch succeeded and clear when it failed,
\* and the failure stops nothing of the caller: a tab handler goes on to
\* start the poller, the enriched start still sets its interval.  (The
\* enriched loader's catch boundary is in startEnrichedPolling.)
C25_LoaderRendersOrClears ==
  [][/\ \A t \in BagToSet(tasks), ok \in BOOLEAN :
          LoadResp(t, ok) =>
            /\ ev' = IF ok THEN Render(t.v) ELSE Clear
            /\ t.k = "handler" =>
                  BagIn(Task("handler", t.v, "seed"), tasks')
     /\ \A t \in BagToSet(tasks), r \in Responses :
          ContextResp(t, r) =>
            ev' = IF r.status = 200 /\ r.body # "bad"
                  THEN Render("context") ELSE Clear
     /\ \A t \in BagToSet(tasks), ok \in BOOLEAN, j \in LatestAnswers :
          EnrichedStartResp(t, ok, j) =>
            /\ ev' = IF ok THEN Render("enriched") ELSE Clear
            /\ poll'["enriched"] # 0]_vars

C25_Witness ==
  /\ ev = Clear /\ vis = "cleared" /\ activeTab \in MtimeViews
  /\ BagIn(Task("handler", activeTab, "seed"), tasks)

\* C27: stopping a poller twice in a row has the effect of stopping it
\* once, and stopping a poller that has no live timer changes nothing: no
\* handle, and no timer of any other view.
C27_StopIdempotent ==
  \A v \in PollViews :
    LET once == stopPolling(Cur, v)
    IN /\ stopPolling(once, v) = once
       /\ once.poll[v] = 0
       /\ (\A t \in timers : t[2] # v) => once = Cur

C27_Witness ==
  \E v \in MtimeViews, w \in PollViews :
    /\ poll[v] = 0 /\ last[v] # 0
    /\ poll[w] # 0 /\ <<poll[w], w>> \in timers

\* C28: when the reload started by a tick that saw a new mtime fails, clear
\* is called and the poller is left as it was (handle and timer), and a tick
\* that sees a changed mtime starts a reload whatever happened before.
C28_FailedReloadKeepsPolling ==
  [][/\ \A t \in BagToSet(tasks) :
          t.k = "tick" /\ LoadResp(t, FALSE) =>
            ev' = Clear /\ timers' = timers /\ poll' = poll
     /\ \A t \in BagToSet(tasks), r \in MtimeAnswers :
          MtimeResp(t, r) /\ r.ok /\ r.mtime # 0 /\ r.mtime # last[t.v] =>
            BagIn(Task("tick", t.v, "load"), tasks')]_vars

\* Only a failed reload of a tick leaves clear as the latest call while the
\* active view's timer is live and nothing is in flight.
C28_Witness ==
  /\ ev = Clear /\ vis = "cleared" /\ tasks = EmptyBag
  /\ activeTab \in MtimeViews /\ <<poll[activeTab], activeTab>> \in timers

\* C29: for one view, at most one callback of its timer is in flight: at
\* most one reload started by a tick of an mtime view, and at most one
\* callback of the enriched timer, whose fetch is its reload.
C29_NoOverlappingReloads ==
  /\ \A v \in MtimeViews : TickLoads(v) <= 1
  /\ TickLoads("enriched") <= 1

\* C30: when start() has run its seed query (mtime views) or its initial
\* load (enriched view), the stored revision is the value that query
\* returned, or the unset value (0, the null tag) when it failed; never the
\* value an earlier polling session left.
C30_StartResetsRevision ==
  [][/\ \A t \in BagToSet(tasks), r \in MtimeAnswers :
          SeedResp(t, r) => last'[t.v] = IF r.ok THEN r.mtime ELSE 0
     /\ \A t \in BagToSet(tasks), ok \in BOOLEAN, j \in LatestAnswers :
          EnrichedStartResp(t, ok, j) =>
            last'["enriched"] = IF ok THEN Tag(j) ELSE NullTag]_vars

\* C26: with the backend down for good, a polling view that is selected and
\* shows its graph is eventually cleared (or left by the user).
C26_StaleGraphCleared ==
  \A v \in PollViews :
    (activeTab = v /\ vis = v) ~> (vis = "cleared" \/ activeTab # v)

\* C31: once the page has loaded and no request is in flight, the
\* visualization is the selected view's graph or the cleared state.
C31_SettledShowsSelected ==
  (booted /\ tasks = EmptyBag) => vis \in {activeTab, "cleared"}

\* C32: with no request failing, once the file has stopped changing the
\* rendered graph is, from some moment on, the one the backend serves.
C32_ChangeEventuallyShown == <>[](qShown = qRev)

\* C33: a view cleared by a failed load (the initial one or a tick's reload)
\* shows the current graph again once the backend's outages are over, the
\* file unchanged all along.
C33_ClearedViewRecovers ==
  (qShown = 0 /\ qpc # "load") ~> (qShown = qRev)

\* The indices the run's probes found existing.
ProbesConfirmed ==
  {pProbes[i][1] : i \in {j \in 1..Len(pProbes) :
                            ProbeResult(pProbes[j][1], pProbes[j][2]).exists}}

\* C34: with every probe answered the run ends, whatever the backend holds;
\* the doubling never takes n beyond twice the cutoff, and a run that
\* returns, returns the highest index one of its probes found existing.
C34_TerminatesUnderCutoff ==
  /\ <>(ppc \in {"returned", "threw"})
  /\ [](pn <= 2 * pCut)
  /\ [](ppc = "returned" =>
          /\ pRes[2] \in ProbesConfirmed
          /\ \A k \in ProbesConfirmed : k <= pRes[2])

\* The doubling was cut off while the backend holds files beyond it.
C34_Witness ==
  /\ ppc = "returned" /\ pn > pCut /\ pN > pn
  /\ \A i \in 1..Len(pProbes) : pProbes[i][2].status = 200

\* C35: while the backend only adds files (the existing indices are always
\* 1..pN and pN only grows), a run that returns, returns the payload of an
\* index one of its probes found existing, and that index is at least the
\* latest index at the start of the run.
C35_GrowingBackend ==
  ppc = "returned" =>
    /\ pRes[2] \in ProbesConfirmed
    /\ pRes[2] >= pN0
    /\ pRes[3] = <<"it", pRes[2], FileNodes(pRes[2]), FileLinks(pRes[2])>>

\* The backend grew during the run, and the run returned an index between
\* the latest at its start and the latest at its end.
C35_Witness ==
  ppc = "returned" /\ pN0 >= 3 /\ pRes[2] > pN0 /\ pRes[2] < pN

\* What a tick that learnt nothing leaves alone.
C36_NothingDone ==
  /\ last' = last /\ timers' = timers /\ poll' = poll
  /\ vis' = vis /\ ev' = NoCall

\* C36: a tick whose query fails, or answers without an mtime or with
\* mtime 0, leaves the stored revision, the timers and the visualization as
\* they are, starts no load and calls neither render nor clear.
C36_SilentTickChangesNothing ==
  [][/\ \A t \in BagToSet(tasks), r \in MtimeAnswers :
          (MtimeResp(t, r) /\ (~r.ok \/ r.mtime = 0)) =>
            C36_NothingDone /\ TickLoads(t.v)' = TickLoads(t.v)
     /\ \A t \in BagToSet(tasks), j \in LatestAnswers :
          EnrichedTickResp(t, FALSE, j) => C36_NothingDone]_vars

\* A tick's query is in flight for a view that shows its graph and has a
\* stored revision.
C36_Witness ==
  \E v \in MtimeViews :
    /\ BagIn(Task("tick", v, "mtime"), tasks)
    /\ vis = v /\ last[v] # 0 /\ <<poll[v], v>> \in timers

\* C37: an upload response renders only when its graph has nodes and brief
\* is the active tab; with another tab active the graph is stored and
\* nothing is rendered; a response without a graph, or with no nodes, leaves
\* the stored brief graph and the visualization as they are.
C37_UploadRendersOnlyOnBrief ==
  [][\A b \in BOOLEAN :
       UploadResp(b) =>
         /\ (b /\ activeTab = "brief") =>
               briefGraph' /\ ev' = Render("brief") /\ vis' = "brief"
         /\ (b /\ activeTab # "brief") =>
               briefGraph' /\ ev' = NoCall /\ vis' = vis
         /\ ~b => briefGraph' = briefGraph /\ ev' = NoCall /\ vis' = vis]_vars

\* A brief graph was stored while a polling view showed its own graph.
C37_Witness ==
  /\ briefGraph /\ activeTab \in PollViews /\ vis = activeTab
  /\ ev = NoCall /\ tasks = EmptyBag

\* C38: once a final status answer of the job has been processed, its
\* interval stays cancelled, no status request is issued and the status
\* text does not change any more.
C38_FinalStatusIsFinal ==
  [][oPc = "stopped" =>
       oPc' = "stopped" /\ oSent' = oSent /\ oStatus' = oStatus]_vars

\* C39: after open() has run the dropdown stays displayed until the next
\* leave, toggle click, outside click or Escape: no close timer set before
\* open() hides it.
C39_OpenedStaysShown == dOpened => dShown
====
